---- MODULE Spec2Model ----
(***************************************************************************)
(* Model of src/script_from_prompt.py: the resumable, concurrency-bounded  *)
(* fetch-and-parse pipeline.  One process run is                           *)
(*   load prior xlsx -> run() (schedule, fetch_one workers, drain)         *)
(*   -> combine and rewrite xlsx -> exit,                                  *)
(* and the program may be started again on the file it left behind.        *)
(*                                                                         *)
(* Text is a sequence of one-character strings, so that str(), zfill(),    *)
(* int() and the regular expression (\d+) are computed, not assumed.       *)
(* A spreadsheet cell is a record [k, n, s]: k = "none" (empty cell),      *)
(* "int" (number n) or "str" (text s).                                     *)
(***************************************************************************)
EXTENDS Integers, Sequences, FiniteSets, TLC

\* ---------------------------------------------------------------- bounds
\* Seat numbers the configuration may name: START_SEAT, END_SEAT \in 1..MaxSeat.
MaxSeat == 3
\* How many times the program is started in a row (resume).
MaxRuns == 2

\* The slots of the admission gate.  The program sets 200 (src line 18); the
\* model takes fewer slots than it has seats, so that invocations do wait.
CONCURRENT_REQUESTS == 2

\* ----------------------------------------------------- program constants
\* src line 19.
RETRIES == 2
\* the width given to zfill() at src lines 55, 109, 111, 118.
SeatWidth == 6

\* ------------------------------------------------------------------ text
DigitChars == <<"0", "1", "2", "3", "4", "5", "6", "7", "8", "9">>

IsDigit(c) == \E i \in 1..10 : DigitChars[i] = c

DigitVal(c) == (CHOOSE i \in 1..10 : DigitChars[i] = c) - 1

\* str(n) for an int n >= 0: its decimal digits, most significant first.
RECURSIVE Str(_)
Str(n) == IF n < 10 THEN <<DigitChars[n + 1]>>
          ELSE Str(n \div 10) \o <<DigitChars[(n % 10) + 1]>>

\* s.zfill(w) for an unsigned s: pads on the left, never truncates.
RECURSIVE ZFill(_, _)
ZFill(s, w) == IF Len(s) >= w THEN s ELSE ZFill(<<"0">> \o s, w)

\* s.strip() for the one whitespace character of the model, " ".
RECURSIVE StripChars(_)
StripChars(s) ==
    IF s = <<>> THEN s
    ELSE IF Head(s) = " " THEN StripChars(Tail(s))
    ELSE IF s[Len(s)] = " " THEN StripChars(SubSeq(s, 1, Len(s) - 1))
    ELSE s

\* The value of a non-empty all-digit text, most significant digit first.
RECURSIVE DigitsValue(_)
DigitsValue(s) == IF s = <<>> THEN 0
                  ELSE 10 * DigitsValue(SubSeq(s, 1, Len(s) - 1)) + DigitVal(s[Len(s)])

AllDigits(s) == s # <<>> /\ \A i \in 1..Len(s) : IsDigit(s[i])

\* re.search(r"(\d+)", s).group(1): the first maximal run of digits of s,
\* <<>> when s holds no digit (the search returns None).
RECURSIVE DigitRun(_)
DigitRun(s) == IF s = <<>> \/ ~IsDigit(Head(s)) THEN <<>>
               ELSE <<Head(s)>> \o DigitRun(Tail(s))

RECURSIVE FirstDigits(_)
FirstDigits(s) == IF s = <<>> THEN <<>>
                  ELSE IF IsDigit(Head(s)) THEN DigitRun(s)
                  ELSE FirstDigits(Tail(s))

\* ----------------------------------------------------------------- cells
None == [k |-> "none", n |-> 0, s |-> <<>>]
IntCell(n) == [k |-> "int", n |-> n, s |-> <<>>]
StrCell(s) == [k |-> "str", n |-> 0, s |-> s]

\* Whether int(v) returns (src line 55); it raises on text that is not a number.
IntOk(v) == \/ v.k = "int"
            \/ v.k = "str" /\ AllDigits(StripChars(v.s))

\* int(v) where IntOk(v).
IntOf(v) == IF v.k = "int" THEN v.n ELSE DigitsValue(StripChars(v.s))

\* str(int(v)).zfill(6): the canonical SeatId of a code value (src lines 55, 118).
SeatOfCode(v) == ZFill(Str(IntOf(v)), SeatWidth)

\* str(s).zfill(6) for a seat number s of the range (src lines 109, 111).
SeatStr(s) == ZFill(Str(s), SeatWidth)

\* ----------------------------------------------------------- field names
\* The field names of the model, in the order Python's sorted() gives them
\* (code points: " " < "C" < "M" < "S" < "c" < "n").
FieldOrder == <<" code", "Code", "Math", "Science", "code", "name">>

FieldNames == {FieldOrder[i] : i \in 1..Len(FieldOrder)}

\* str(h).strip().lower() on the field names of the model (src line 41).
StripLower(h) == CASE h = " code" -> "code"
                   [] h = "Code" -> "code"
                   [] h = "Math" -> "math"
                   [] h = "Science" -> "science"
                   [] OTHER -> h

\* cols[0].split("/")[0].strip() (src line 96): a first column is modelled by
\* its "/"-separated pieces, each a name with optional blanks around it.
StripName(p) == CASE p = "Math " -> "Math"
                  [] p = " Science" -> "Science"
                  [] OTHER -> p

SubjectKey(col) == StripName(col[1])

\* The other headers in descending order.
SortedOthersDescending(hdrs) ==
    [i \in 1..Len(SelectSeq(FieldOrder,
                            LAMBDA h : h \in hdrs /\ h \notin {"name", "code"}))
        |-> SelectSeq(FieldOrder,
                      LAMBDA h : h \in hdrs /\ h \notin {"name", "code"})
              [Len(SelectSeq(FieldOrder,
                             LAMBDA h : h \in hdrs /\ h \notin {"name", "code"}))
               + 1 - i]]

\* sorted(h for h in hdrs if h not in ("name", "code")) (src line 134).
SortedOthers(hdrs) ==
    SelectSeq(FieldOrder, LAMBDA h : h \in hdrs /\ h \notin {"name", "code"})

\* --------------------------------------------------------------- records
\* A Record is a dict: a function from its keys to cells.
\* d[k] = v on a dict d.
Put(d, k, v) == [h \in DOMAIN d \cup {k} |-> IF h = k THEN v ELSE d[h]]

\* rec.get(h, "") (src line 144).
Get(rec, h) == IF h \in DOMAIN rec THEN rec[h] ELSE StrCell(<<>>)

\* dict(zip(header_row, row)) (src line 59): pairs up to the shorter of the
\* two; of two equal headers the later one wins.
ZipDict(header, row) ==
    LET n == IF Len(header) < Len(row) THEN Len(header) ELSE Len(row)
        last(h) == CHOOSE i \in 1..n :
                       header[i] = h /\ \A j \in 1..n : header[j] = h => j <= i
    IN [h \in {header[i] : i \in 1..n} |-> row[last(h)]]

\* fetch_one's return None, and what `if item:` (src line 117) rejects.
NoResult == [none |-> None]

Truthy(item) == item # NoResult

\* ------------------------------------------------------- remote responses
\* A response body as the parser sees it: whether <section id="student_result">
\* is there, its first <h2> (name), the first <span> whose text holds "code"
\* (spanText), its first <table> and the table's rows, each row the texts of
\* its <td>s: a first column as its "/"-separated pieces, a second as text.

\* src lines 93-97: one key per two-column row, later rows overwrite.
RECURSIVE AddRows(_, _)
AddRows(data, rows) ==
    IF rows = <<>> THEN data
    ELSE LET cols == Head(rows)
         IN AddRows(IF Len(cols) = 2
                    THEN Put(data, SubjectKey(cols[1]), StrCell(cols[2]))
                    ELSE data,
                    Tail(rows))

\* src lines 82-87: the requested seat's integer, overridden by the digits of
\* the labelled span when it has any.
ParseCode(seat_str, resp) ==
    IF resp.span /\ FirstDigits(resp.spanText) # <<>>
    THEN DigitsValue(FirstDigits(resp.spanText))
    ELSE DigitsValue(seat_str)

\* src lines 74-98: what one attempt returns for a response body.
ParseResponse(seat_str, resp) ==
    IF ~resp.sec THEN NoResult
    ELSE IF ~resp.table THEN NoResult
    ELSE AddRows([h \in {"name", "code"} |->
                     IF h = "name"
                     THEN StrCell(IF resp.h2 THEN resp.name ELSE <<>>)
                     ELSE IntCell(ParseCode(seat_str, resp))],
                 resp.rows)

\* ------------------------------------------------------ prior-result loader
\* A dataset file: whether it exists, its header row (field names) and its
\* data rows (cells; a row may be shorter than the header).
NoFile == [exists |-> FALSE, header |-> <<>>, rows |-> <<>>]

\* A search without the break of src line 43: the last header that is "code".
CodeColLast(header) ==
    IF \E i \in 1..Len(header) : StripLower(header[i]) = "code"
    THEN CHOOSE i \in 1..Len(header) :
             /\ StripLower(header[i]) = "code"
             /\ \A j \in (i + 1)..Len(header) : StripLower(header[j]) # "code"
    ELSE 0

\* src lines 39-43: the 1-based position of the first header that is "code"
\* after strip().lower(); 0 stands for code_col = None.
CodeCol(header) ==
    IF \E i \in 1..Len(header) : StripLower(header[i]) = "code"
    THEN CHOOSE i \in 1..Len(header) :
             /\ StripLower(header[i]) = "code"
             /\ \A j \in 1..(i - 1) : StripLower(header[j]) # "code"
    ELSE 0

\* src lines 49-57: the row is long enough, its code cell is not None and
\* int() accepts it.
RowKept(row, cc) == /\ cc <= Len(row)
                    /\ row[cc] # None
                    /\ IntOk(row[cc])

\* src lines 47-59, the rows retained, in file order.
KeptRows(f) ==
    IF ~f.exists \/ CodeCol(f.header) = 0 THEN <<>>
    ELSE SelectSeq(f.rows, LAMBDA row : RowKept(row, CodeCol(f.header)))

\* src line 58: seen_codes after the load.
LoadSeen(f) ==
    {SeatOfCode(KeptRows(f)[i][CodeCol(f.header)]) : i \in 1..Len(KeptRows(f))}

\* A loader that retains a row before it looks at its code.
LoadExistingAll(f) ==
    IF ~f.exists \/ CodeCol(f.header) = 0 THEN <<>>
    ELSE [i \in 1..Len(f.rows) |-> ZipDict(f.header, f.rows[i])]

\* A loader that, finding no code column, retains every row.
LoadExistingUnkeyed(f) ==
    IF f.exists /\ CodeCol(f.header) = 0
    THEN [i \in 1..Len(f.rows) |-> ZipDict(f.header, f.rows[i])]
    ELSE [i \in 1..Len(KeptRows(f)) |-> ZipDict(f.header, KeptRows(f)[i])]

\* src line 59: existing after the load.
LoadExisting(f) ==
    [i \in 1..Len(KeptRows(f)) |-> ZipDict(f.header, KeptRows(f)[i])]

\* ------------------------------------------------------------------ writer
\* src line 133: the union of the keys of all records.
AllKeys(recs) == UNION {DOMAIN recs[i] : i \in 1..Len(recs)}

\* src line 134.
Headers(recs) == <<"name", "code">> \o SortedOthers(AllKeys(recs))

\* ws.write(r, c, v): xlsxwriter writes no cell for None and for "", so the
\* cell reads back empty; any other value is stored as it is.
WriteCell(v) == IF v = None \/ v = StrCell(<<>>) THEN None ELSE v

\* src lines 142-144: one row per record, one cell per header.
WriteRows(recs) ==
    [i \in 1..Len(recs) |->
        [c \in 1..Len(Headers(recs)) |-> WriteCell(Get(recs[i], Headers(recs)[c]))]]

\* src lines 136-146: the file the writer leaves.
WrittenFile(recs) ==
    [exists |-> TRUE, header |-> Headers(recs), rows |-> WriteRows(recs)]

\* ------------------------------------------------------------------ inputs
\* Response bodies the remote may serve.
RespNoSection ==
    [sec |-> FALSE, h2 |-> FALSE, name |-> <<>>, span |-> FALSE,
     spanText |-> <<>>, table |-> FALSE, rows |-> <<>>]

\* A section with a labelled code span but no table.
RespNoTable ==
    [sec |-> TRUE, h2 |-> TRUE, name |-> <<"A">>, span |-> TRUE,
     spanText |-> <<"c", ":", "7">>, table |-> FALSE, rows |-> <<>>]

\* No code span: the code is the requested seat's.
RespPlain ==
    [sec |-> TRUE, h2 |-> TRUE, name |-> <<"A">>, span |-> FALSE,
     spanText |-> <<>>, table |-> TRUE,
     rows |-> << << <<"Math ", "100">>, <<"9", "0">> >> >>]

\* A code span "c:02-7": the remote asserts code 2.
RespAsserted ==
    [sec |-> TRUE, h2 |-> TRUE, name |-> <<"B">>, span |-> TRUE,
     spanText |-> <<"c", ":", "0", "2", "-", "7">>, table |-> TRUE,
     rows |-> << << <<"Science">>, <<"8", "5">> >> >>]

\* A code span without digits, no <h2>, rows of one and three columns.
RespNoDigits ==
    [sec |-> TRUE, h2 |-> FALSE, name |-> <<>>, span |-> TRUE,
     spanText |-> <<"c", "o", "d", "e">>, table |-> TRUE,
     rows |-> << << <<"Math">> >>,
                 << <<" Science">>, <<"7">> >>,
                 << <<"Math">>, <<"1">>, <<"2">> >> >>]

\* A table row whose subject key is "code".
RespCodeRow ==
    [sec |-> TRUE, h2 |-> TRUE, name |-> <<"C">>, span |-> TRUE,
     spanText |-> <<"c", ":", "0", "2">>, table |-> TRUE,
     rows |-> << << <<"code", "x">>, <<"x">> >> >>]

\* What the remote does for one seat, the same in every run: the first `fails`
\* attempts of every invocation raise (timeout, connection error), any later
\* attempt receives `resp`.
Behaviours ==
    {[fails |-> RETRIES, resp |-> RespNoSection],
     [fails |-> 1, resp |-> RespPlain],
     [fails |-> 1, resp |-> RespNoTable]}
    \cup {[fails |-> 0, resp |-> r] :
            r \in {RespNoSection, RespNoTable, RespPlain, RespAsserted,
                   RespNoDigits, RespCodeRow}}

\* The SeatIds the configuration can reach.
SeatIds == {SeatStr(s) : s \in 1..MaxSeat}

\* The endpoints of the model: every seat has a plain record, but for one
\* seat, which behaves in any of the ways above.
Remotes ==
    {[seat \in SeatIds |->
         IF seat = special THEN b ELSE [fails |-> 0, resp |-> RespPlain]] :
       special \in SeatIds, b \in Behaviours}

\* The endpoint no seat of which is special.
PlainRemote == [seat \in SeatIds |-> [fails |-> 0, resp |-> RespPlain]]

\* Files the program may find at its first start.
PriorFiles ==
    {NoFile,
     [exists |-> TRUE, header |-> <<"name", "code", "Math">>,
      rows |-> << <<StrCell(<<"A">>), IntCell(1), StrCell(<<"9", "0">>)>> >>],
     [exists |-> TRUE, header |-> <<"Math", "Code", " code">>,
      rows |-> << <<StrCell(<<"8">>), StrCell(<<" ", "2">>), IntCell(3)>>,
                  <<StrCell(<<"7">>)>>,
                  <<None, None, IntCell(1)>>,
                  <<None, StrCell(<<"x">>)>> >>],
     [exists |-> TRUE, header |-> <<"Math", "Science">>,
      rows |-> << <<StrCell(<<"9", "0">>), IntCell(1)>> >>]}

\* ------------------------------------------------------------------- state
VARIABLES
    START_SEAT,   \* src line 16
    END_SEAT,     \* src line 17
    retries,      \* RETRIES as configured (src line 19)
    remote,       \* SeatId -> behaviour of the endpoint for that stdInfo
    first_file,   \* OUTPUT_XLSX as the first start of the program found it
    file,         \* OUTPUT_XLSX
    errlog,       \* the lines this process appended to ERROR_LOG, [seat, msg]
    console,      \* the lines this process printed
    run,          \* which start of the program this is
    pc,           \* "load", "run", "drain", "write", "exit"
    existing,     \* src line 32
    seen_codes,   \* src line 33
    seats,        \* src line 108
    task,         \* SeatId -> where its fetch_one invocation stands
    attempt,      \* SeatId -> iterations of the retry loop begun
    semaphore,    \* src line 64: the free slots
    completed,    \* invocations that returned and run() has not yet awaited
    results,      \* src line 65
    origin,       \* history: the seat each entry of results was fetched for
    requests,     \* history: SeatId -> session.get calls issued in this run
    finished,     \* history: the Records returned in this run, in return order
    wrote         \* history: whether this run wrote the file

vars == <<START_SEAT, END_SEAT, retries, remote, first_file, file, errlog,
          console, run, pc, existing, seen_codes, seats, task, attempt,
          semaphore, completed, results, origin, requests, finished, wrote>>

config == <<START_SEAT, END_SEAT, retries, remote, first_file>>

\* A printed line: what it says, and the code, name or count it carries.
Line(msg, code, name, n) == [msg |-> msg, code |-> code, name |-> name, n |-> n]

\* A line of the error log (src lines 100, 102).
LogLine(seat, msg) == [seat |-> seat, msg |-> msg]

Scheduled == {seats[i] : i \in 1..Len(seats)}

\* The state of a process that has just started (src lines 32-33, 64-65).
Fresh ==
    /\ pc = "load"
    /\ existing = <<>>
    /\ seen_codes = {}
    /\ seats = <<>>
    /\ task = <<>>
    /\ attempt = <<>>
    /\ semaphore = CONCURRENT_REQUESTS
    /\ completed = <<>>
    /\ results = <<>>
    /\ origin = <<>>
    /\ requests = <<>>
    /\ finished = <<>>
    /\ console = <<>>
    /\ wrote = FALSE

\* The configured values of RETRIES: the source's, and none at all (no
\* request is issued then, whatever the endpoint).
RetryLimits == {0, RETRIES}

Init ==
    /\ START_SEAT \in 1..MaxSeat
    /\ END_SEAT \in 1..MaxSeat
    /\ retries \in RetryLimits
    /\ remote \in IF retries = 0 THEN {PlainRemote} ELSE Remotes
    /\ first_file \in PriorFiles
    /\ file = first_file
    /\ errlog = <<>>
    /\ run = 1
    /\ Fresh

\* ----------------------------------------------------------------- actions
\* src lines 32-61.
Load ==
    /\ pc = "load"
    /\ existing' = LoadExisting(file)
    /\ seen_codes' = LoadSeen(file)
    /\ console' = IF ~file.exists THEN console
                  ELSE IF CodeCol(file.header) = 0
                  THEN Append(console, Line("no code column", <<>>, <<>>, 0))
                  ELSE Append(console,
                              Line("loaded", <<>>, <<>>, Len(LoadExisting(file))))
    /\ pc' = "run"
    /\ UNCHANGED <<config, file, errlog, run, seats, task, attempt, semaphore,
                   completed, results, origin, requests, finished, wrote>>

\* range(START_SEAT, END_SEAT + 1) (src line 110).
SeatRange == [i \in 1..(END_SEAT + 1 - START_SEAT) |-> START_SEAT + i - 1]

\* A seat list that leaves the seen seats in.
SeatListUnfiltered(seen) == [i \in 1..Len(SeatRange) |-> SeatStr(SeatRange[i])]

\* src lines 108-112.
SeatList(seen) ==
    SelectSeq([i \in 1..Len(SeatRange) |-> SeatStr(SeatRange[i])],
              LAMBDA seat : seat \notin seen)

\* src lines 108-115: the seat list, one fetch_one coroutine per seat, all
\* handed to as_completed.
Schedule ==
    /\ pc = "run"
    /\ seats' = SeatList(seen_codes)
    /\ task' = [seat \in {SeatList(seen_codes)[i] : i \in 1..Len(SeatList(seen_codes))}
                   |-> "created"]
    /\ attempt' = [seat \in DOMAIN task' |-> 0]
    /\ requests' = [seat \in DOMAIN task' |-> 0]
    /\ pc' = "drain"
    /\ UNCHANGED <<config, file, errlog, console, run, existing, seen_codes,
                   semaphore, completed, results, origin, finished, wrote>>

\* An invocation that, out of retries, returns a Record without grades.
GiveUpWithStub(seat) ==
    /\ errlog' = Append(errlog, LogLine(seat, "failed after retries"))
    /\ semaphore' = semaphore + 1
    /\ task' = [task EXCEPT ![seat] = "returned"]
    /\ completed' = Append(completed,
                           [seat |-> seat,
                            item |-> [name |-> StrCell(<<>>),
                                      code |-> IntCell(DigitsValue(seat))]])
    /\ UNCHANGED <<attempt, requests, finished>>

\* An invocation that, out of retries, returns without releasing its slot.
GiveUpHolding(seat) ==
    /\ errlog' = Append(errlog, LogLine(seat, "failed after retries"))
    /\ task' = [task EXCEPT ![seat] = "returned"]
    /\ completed' = Append(completed, [seat |-> seat, item |-> NoResult])
    /\ UNCHANGED <<semaphore, attempt, requests, finished>>

\* The history of returns after `seat` returned `item`: a Record is noted
\* with its seat, no-result leaves no trace.
Returned(seat, item) ==
    IF item = NoResult THEN finished
    ELSE Append(finished, [seat |-> seat, item |-> item])

\* src lines 102-103 and the exit of `async with semaphore`: the final log
\* line, the slot released, None returned.
GiveUp(seat) ==
    /\ errlog' = Append(errlog, LogLine(seat, "failed after retries"))
    /\ semaphore' = semaphore + 1
    /\ task' = [task EXCEPT ![seat] = "returned"]
    /\ completed' = Append(completed, [seat |-> seat, item |-> NoResult])
    /\ UNCHANGED <<attempt, requests, finished>>

\* A loop that grants RETRIES attempts after the first one.
NextAttemptAfterFirst(seat) ==
    IF attempt[seat] <= retries
    THEN /\ attempt' = [attempt EXCEPT ![seat] = @ + 1]
         /\ requests' = [requests EXCEPT ![seat] = @ + 1]
         /\ task' = [task EXCEPT ![seat] = "inflight"]
         /\ UNCHANGED <<errlog, semaphore, completed, finished>>
    ELSE GiveUp(seat)

\* src lines 70-72: the next iteration of range(RETRIES) issues a request, or
\* the loop is over.
NextAttempt(seat) ==
    IF attempt[seat] < retries
    THEN /\ attempt' = [attempt EXCEPT ![seat] = @ + 1]
         /\ requests' = [requests EXCEPT ![seat] = @ + 1]
         /\ task' = [task EXCEPT ![seat] = "inflight"]
         /\ UNCHANGED <<errlog, semaphore, completed, finished>>
    ELSE GiveUp(seat)

\* A gate that admits whatever the counter says.
SlotFreeAlways == TRUE

\* Semaphore.acquire() returns at once only while the counter is positive.
SlotFree == semaphore > 0

\* src lines 69-72: the slot is taken and the first iteration of
\* range(RETRIES) issues its request; with no iteration to make, the
\* invocation logs, returns None and gives the slot back at once
\* (src lines 102-103).
TakeSlot(seat) ==
    IF 0 < retries
    THEN /\ semaphore' = semaphore - 1
         /\ attempt' = [attempt EXCEPT ![seat] = 1]
         /\ requests' = [requests EXCEPT ![seat] = @ + 1]
         /\ task' = [task EXCEPT ![seat] = "inflight"]
         /\ UNCHANGED <<errlog, completed, finished>>
    ELSE /\ errlog' = Append(errlog, LogLine(seat, "failed after retries"))
         /\ task' = [task EXCEPT ![seat] = "returned"]
         /\ completed' = Append(completed, [seat |-> seat, item |-> NoResult])
         /\ UNCHANGED <<semaphore, attempt, requests, finished>>

\* src line 69 with a free slot: the invocation passes the gate at once.
Enter(seat) ==
    /\ pc = "drain"
    /\ task[seat] = "created"
    /\ SlotFree
    /\ TakeSlot(seat)
    /\ UNCHANGED <<config, file, console, run, pc, existing, seen_codes, seats,
                   results, origin, wrote>>

\* src line 69 with no free slot: the invocation waits.
Block(seat) ==
    /\ pc = "drain"
    /\ task[seat] = "created"
    /\ ~SlotFree
    /\ task' = [task EXCEPT ![seat] = "waiting"]
    /\ UNCHANGED <<config, file, errlog, console, run, pc, existing, seen_codes,
                   seats, attempt, semaphore, completed, results, origin,
                   requests, finished, wrote>>

\* A semaphore whose release wakes no waiting invocation.
AdmitLost(seat) ==
    /\ pc = "drain"
    /\ task[seat] = "waiting"
    /\ FALSE
    /\ UNCHANGED vars

\* src line 69: a waiting invocation is woken by a release and takes the slot.
Admit(seat) ==
    /\ pc = "drain"
    /\ task[seat] = "waiting"
    /\ SlotFree
    /\ TakeSlot(seat)
    /\ UNCHANGED <<config, file, console, run, pc, existing, seen_codes, seats,
                   results, origin, wrote>>

\* src lines 72-73, 99-101: the request raises; the error is logged and the
\* invocation sleeps.
Raise(seat) ==
    /\ pc = "drain"
    /\ task[seat] = "inflight"
    /\ attempt[seat] <= remote[seat].fails
    /\ errlog' = Append(errlog, LogLine(seat, "error"))
    /\ task' = [task EXCEPT ![seat] = "sleeping"]
    /\ UNCHANGED <<config, file, console, run, pc, existing, seen_codes, seats,
                   attempt, semaphore, completed, results, origin, requests,
                   finished, wrote>>

\* An invocation that takes a body without a record for a failure: it logs
\* and sleeps, to try again.
RespondRetrying(seat) ==
    /\ pc = "drain"
    /\ task[seat] = "inflight"
    /\ attempt[seat] > remote[seat].fails
    /\ IF ParseResponse(seat, remote[seat].resp) = NoResult
       THEN /\ errlog' = Append(errlog, LogLine(seat, "error"))
            /\ task' = [task EXCEPT ![seat] = "sleeping"]
            /\ UNCHANGED <<semaphore, completed, finished>>
       ELSE /\ semaphore' = semaphore + 1
            /\ task' = [task EXCEPT ![seat] = "returned"]
            /\ completed' = Append(completed,
                                   [seat |-> seat,
                                    item |-> ParseResponse(seat, remote[seat].resp)])
            /\ finished' = Returned(seat, ParseResponse(seat, remote[seat].resp))
            /\ UNCHANGED errlog
    /\ UNCHANGED <<config, file, console, run, pc, existing, seen_codes, seats,
                   attempt, results, origin, requests, wrote>>

\* An invocation that puts its Record into results itself.
RespondAppending(seat) ==
    /\ pc = "drain"
    /\ task[seat] = "inflight"
    /\ attempt[seat] > remote[seat].fails
    /\ semaphore' = semaphore + 1
    /\ task' = [task EXCEPT ![seat] = "returned"]
    /\ completed' = Append(completed,
                           [seat |-> seat,
                            item |-> ParseResponse(seat, remote[seat].resp)])
    /\ finished' = Returned(seat, ParseResponse(seat, remote[seat].resp))
    /\ results' = IF Truthy(ParseResponse(seat, remote[seat].resp))
                  THEN Append(results, ParseResponse(seat, remote[seat].resp))
                  ELSE results
    /\ UNCHANGED <<config, file, errlog, console, run, pc, existing, seen_codes,
                   seats, attempt, origin, requests, wrote>>

\* src lines 72-98: the body arrives and is parsed; the invocation returns a
\* Record or None and leaves `async with semaphore`.
Respond(seat) ==
    /\ pc = "drain"
    /\ task[seat] = "inflight"
    /\ attempt[seat] > remote[seat].fails
    /\ semaphore' = semaphore + 1
    /\ task' = [task EXCEPT ![seat] = "returned"]
    /\ completed' = Append(completed,
                           [seat |-> seat,
                            item |-> ParseResponse(seat, remote[seat].resp)])
    /\ finished' = Returned(seat, ParseResponse(seat, remote[seat].resp))
    /\ UNCHANGED <<config, file, errlog, console, run, pc, existing, seen_codes,
                   seats, attempt, results, origin, requests, wrote>>

\* src line 101 returns: the loop goes on, or ends at src lines 102-103.
Wake(seat) ==
    /\ pc = "drain"
    /\ task[seat] = "sleeping"
    /\ NextAttempt(seat)
    /\ UNCHANGED <<config, file, console, run, pc, existing, seen_codes, seats,
                   results, origin, wrote>>

\* str(v) of a code value (src line 118).
CodeText(v) == IF v.k = "int" THEN Str(v.n) ELSE v.s

\* src lines 118-119: the line printed for a Record.
OkLine(item) ==
    Line("ok", ZFill(CodeText(item["code"]), SeatWidth), item["name"].s, 0)

\* A run() that takes the completions in the order the seats were submitted
\* (as gather would hand them over).
DrainSubmitted ==
    /\ pc = "drain"
    /\ completed # <<>>
    /\ LET Pos(seat) == CHOOSE i \in DOMAIN seats : seats[i] = seat
           first == CHOOSE i \in DOMAIN completed :
                       \A j \in DOMAIN completed :
                          Pos(completed[i].seat) <= Pos(completed[j].seat)
       IN /\ completed' = SubSeq(completed, 1, first - 1) \o
                             SubSeq(completed, first + 1, Len(completed))
          /\ IF Truthy(completed[first].item)
             THEN /\ results' = Append(results, completed[first].item)
                  /\ origin' = Append(origin, completed[first].seat)
                  /\ console' = Append(console, OkLine(completed[first].item))
             ELSE UNCHANGED <<results, origin, console>>
    /\ UNCHANGED <<config, file, errlog, run, pc, existing, seen_codes, seats,
                   task, attempt, semaphore, requests, finished, wrote>>

\* src lines 116-120: run() awaits the next completion and keeps a Record.
Drain ==
    /\ pc = "drain"
    /\ completed # <<>>
    /\ completed' = Tail(completed)
    /\ IF Truthy(Head(completed).item)
       THEN /\ results' = Append(results, Head(completed).item)
            /\ origin' = Append(origin, Head(completed).seat)
            /\ console' = Append(console, OkLine(Head(completed).item))
       ELSE UNCHANGED <<results, origin, console>>
    /\ UNCHANGED <<config, file, errlog, run, pc, existing, seen_codes, seats,
                   task, attempt, semaphore, requests, finished, wrote>>

\* src line 114: as_completed is exhausted once every task was awaited.
RunDone ==
    /\ pc = "drain"
    /\ completed = <<>>
    /\ \A seat \in DOMAIN task : task[seat] = "returned"
    /\ pc' = "write"
    /\ UNCHANGED <<config, file, errlog, console, run, existing, seen_codes,
                   seats, task, attempt, semaphore, completed, results, origin,
                   requests, finished, wrote>>

\* The new Records put before the prior ones.
AllRecordsNewFirst == results \o existing

\* The prior Records left out of what is written.
AllRecordsNewOnly == results

\* src line 127.
AllRecords == existing \o results

\* A writer without the guard of src lines 128-130.
WriteAlways ==
    /\ pc = "write"
    /\ file' = WrittenFile(AllRecords)
    /\ wrote' = TRUE
    /\ console' = console \o
           <<Line("wrote", <<>>, <<>>, Len(AllRecords)),
             Line("check the error log", <<>>, <<>>, 0)>>
    /\ pc' = "exit"
    /\ UNCHANGED <<config, errlog, run, existing, seen_codes, seats, task,
                   attempt, semaphore, completed, results, origin, requests,
                   finished>>

\* src lines 127-147.
Write ==
    /\ pc = "write"
    /\ IF AllRecords = <<>>
       THEN /\ console' = Append(console, Line("no new records", <<>>, <<>>, 0))
            /\ UNCHANGED <<file, wrote>>
       ELSE /\ file' = WrittenFile(AllRecords)
            /\ wrote' = TRUE
            /\ console' = console \o
                   <<Line("wrote", <<>>, <<>>, Len(AllRecords)),
                     Line("check the error log", <<>>, <<>>, 0)>>
    /\ pc' = "exit"
    /\ UNCHANGED <<config, errlog, run, existing, seen_codes, seats, task,
                   attempt, semaphore, completed, results, origin, requests,
                   finished>>

\* The program is started again on the files the last run left
\* (src lines 32-33, 64-65 run anew).
Restart ==
    /\ pc = "exit"
    /\ run < MaxRuns
    /\ run' = run + 1
    /\ pc' = "load"
    /\ existing' = <<>>
    /\ seen_codes' = {}
    /\ seats' = <<>>
    /\ task' = <<>>
    /\ attempt' = <<>>
    /\ semaphore' = CONCURRENT_REQUESTS
    /\ completed' = <<>>
    /\ results' = <<>>
    /\ origin' = <<>>
    /\ requests' = <<>>
    /\ finished' = <<>>
    /\ console' = <<>>
    /\ wrote' = FALSE
    /\ errlog' = <<>>
    /\ UNCHANGED <<config, file>>

EnterSome == \E seat \in DOMAIN task : Enter(seat)

BlockSome == \E seat \in DOMAIN task : Block(seat)

AdmitSome == \E seat \in DOMAIN task : Admit(seat)

RaiseSome == \E seat \in DOMAIN task : Raise(seat)

RespondSome == \E seat \in DOMAIN task : Respond(seat)

WakeSome == \E seat \in DOMAIN task : Wake(seat)

Next ==
    \/ Load
    \/ Schedule
    \/ EnterSome
    \/ BlockSome
    \/ AdmitSome
    \/ RaiseSome
    \/ RespondSome
    \/ WakeSome
    \/ Drain
    \/ RunDone
    \/ Write
    \/ Restart

Spec == Init /\ [][Next]_vars

\* The steps of one execution of the program: every step but the start of
\* another one.
Step ==
    \/ Load
    \/ Schedule
    \/ EnterSome
    \/ BlockSome
    \/ AdmitSome
    \/ RaiseSome
    \/ RespondSome
    \/ WakeSome
    \/ Drain
    \/ RunDone
    \/ Write

\* One execution, on a range that begins at the first seat.
FairInit == Init /\ START_SEAT = 1

\* The interpreter and the event loop of asyncio.run (src line 124) keep
\* running what is ready, and every request returns or raises: the process
\* does not stop while one of its steps is possible.
FairSpec == FairInit /\ [][Step]_vars /\ WF_vars(Step)

\* ================================================================== claims
\* Invocations that passed the admission gate and have not returned.
InFlight == {seat \in DOMAIN task : task[seat] \in {"inflight", "sleeping"}}

\* The lines of the error log written for a seat.
LogLines(seat) == {i \in 1..Len(errlog) : errlog[i].seat = seat}

\* The transport fails on every attempt made for the seat.
FailsAlways(seat) == remote[seat].fails >= retries

\* C1: at every point of a run at most CONCURRENT_REQUESTS invocations are
\* between admission and return, although one invocation exists per scheduled
\* seat; an invocation that found no free slot has issued no request while it
\* waits.
C1_BoundedAdmission ==
    /\ Cardinality(InFlight) <= CONCURRENT_REQUESTS
    /\ \A seat \in DOMAIN task :
          task[seat] \in {"created", "waiting"} => requests[seat] = 0

\* C1's case: more invocations than slots, every slot taken, one waiting.
C1_Witness ==
    /\ Cardinality(DOMAIN task) > CONCURRENT_REQUESTS
    /\ Cardinality(InFlight) = CONCURRENT_REQUESTS
    /\ \E seat \in DOMAIN task : task[seat] = "waiting"

\* C2: a scheduled seat whose every attempt raises never contributes a Record:
\* its invocation returns None after the retries, run() goes on to the writer
\* only after it returned, the error log holds a line for it, and every Record
\* kept is the one the remote's response for its own seat parses to.
C2_FailedSeatAbsent ==
    /\ \A seat \in DOMAIN task :
          FailsAlways(seat) =>
             /\ \A i \in 1..Len(origin) : origin[i] # seat
             /\ \A i \in 1..Len(completed) :
                   completed[i].seat = seat => completed[i].item = NoResult
             /\ task[seat] = "returned" => LogLines(seat) # {}
             /\ pc \in {"write", "exit"} => task[seat] = "returned"
    /\ Len(origin) = Len(results)
    /\ \A i \in 1..Len(results) :
          results[i] = ParseResponse(origin[i], remote[origin[i]].resp)

\* C2's case: the run is over, the file is written with another seat's
\* Record, and a scheduled seat failed on every attempt.
C2_Witness ==
    /\ pc = "exit"
    /\ wrote
    /\ results # <<>>
    /\ \E seat \in DOMAIN task : FailsAlways(seat) /\ requests[seat] = RETRIES

\* The code the response for a seat asserts in its labelled span, if any.
Asserts(resp) == resp.span /\ FirstDigits(resp.spanText) # <<>>

AssertedCode(resp) == DigitsValue(FirstDigits(resp.spanText))

\* No table row of any response is keyed "code".
NoCodeRows ==
    \A seat \in SeatIds : \A i \in 1..Len(remote[seat].resp.rows) :
        SubjectKey(remote[seat].resp.rows[i][1]) # "code"

\* C3: resume is idempotent: with the remote behaving the same in both runs
\* (also where it asserts a code other than the requested seat), the second of
\* two runs in succession fetches no new Record.  Stated here for the runs
\* that start without a prior file and whose responses have no row keyed
\* "code", so that a violation rests on nothing but the asserted code.
C3_ResumeIdempotent ==
    (run = 2 /\ pc = "exit" /\ ~first_file.exists /\ NoCodeRows)
        => results = <<>>

Abs(x) == IF x < 0 THEN -x ELSE x

\* C4: for all bounds, START_SEAT > END_SEAT included, the enumeration of
\* run() yields |END_SEAT - START_SEAT| + 1 SeatIds, each of 6 characters,
\* covering the inclusive range between the bounds.  Read off seats where
\* nothing was filtered out (the seen-set is empty).
C4_SeatEnumeration ==
    (pc = "drain" /\ seen_codes = {}) =>
        /\ Len(seats) = Abs(END_SEAT - START_SEAT) + 1
        /\ \A i \in 1..Len(seats) : Len(seats[i]) = SeatWidth
        /\ Scheduled =
             {SeatStr(n) : n \in {m \in 1..MaxSeat :
                                     \/ START_SEAT <= m /\ m <= END_SEAT
                                     \/ END_SEAT <= m /\ m <= START_SEAT}}

\* C5: the Record fetched for a seat carries in `code` the code the response
\* asserts in its labelled span, and the requested seat's integer only when
\* the response asserts none; so does its row of the written dataset.
C5_RemoteCodePrecedence ==
    \A i \in 1..Len(results) :
        LET resp == remote[origin[i]].resp
            code == IF Asserts(resp) THEN IntCell(AssertedCode(resp))
                    ELSE IntCell(DigitsValue(origin[i]))
        IN /\ results[i]["code"] = code
           /\ (pc = "exit" /\ wrote) => file.rows[Len(existing) + i][2] = code

\* The part of C5 the code keeps: where no table row is keyed "code", the
\* asserted code takes precedence over the requested one.
C5_PrecedenceWithoutCodeRow == NoCodeRows => C5_RemoteCodePrecedence

\* The column of a written file whose header is literally "code".
CodeColumn(f) == CHOOSE c \in 1..Len(f.header) : f.header[c] = "code"

\* A cell that holds an integer or the text of one.
Parsable(v) == \/ v.k = "int"
               \/ v.k = "str" /\ StripChars(v.s) # <<>>
                              /\ \A i \in 1..Len(StripChars(v.s)) :
                                    IsDigit(StripChars(v.s)[i])

\* The rows of a written file whose `code` cell is parsable.
ParsableRows(f) == {i \in 1..Len(f.rows) : Parsable(f.rows[i][CodeColumn(f)])}

\* C6 as stated: loading a written dataset yields the seen-set of the values
\* of its `code` column and one prior Record per written row.
C6_RoundTrip ==
    (pc = "exit" /\ wrote) =>
        /\ LoadSeen(file) =
             {SeatOfCode(file.rows[i][CodeColumn(file)]) : i \in ParsableRows(file)}
        /\ Len(LoadExisting(file)) = Len(file.rows)

\* C6 amended: loading a written dataset yields the seen-set of the
\* integer-parsable values of its `code` column, and one prior Record for each
\* written row whose `code` cell is integer-parsable, in the written order;
\* a row whose `code` cell is empty or not an integer yields none.
C6_RoundTripParsable ==
    (pc = "exit" /\ wrote) =>
        /\ LoadSeen(file) =
             {SeatOfCode(file.rows[i][CodeColumn(file)]) : i \in ParsableRows(file)}
        /\ Len(LoadExisting(file)) = Cardinality(ParsableRows(file))
        /\ \A j \in 1..Len(LoadExisting(file)) :
              \E i \in ParsableRows(file) :
                 /\ LoadExisting(file)[j] = ZipDict(file.header, file.rows[i])
                 /\ Cardinality({k \in ParsableRows(file) : k <= i}) = j

\* C6's case: a written dataset with a row that loads and a row that does not.
C6_Witness ==
    /\ pc = "exit"
    /\ wrote
    /\ ParsableRows(file) # {}
    /\ ParsableRows(file) # 1..Len(file.rows)
    /\ Len(LoadExisting(file)) < Len(file.rows)

\* The position of the code column the loader found (0: none).
FoundCol == IF file.exists THEN CodeCol(file.header) ELSE 0

\* A prior row every guard of the loader lets through: long enough, with a
\* code that is not empty and is an integer.
GoodRows ==
    {i \in 1..Len(file.rows) :
        /\ Len(file.rows[i]) >= FoundCol
        /\ file.rows[i][FoundCol].k # "none"
        /\ Parsable(file.rows[i][FoundCol])}

\* The file on disk is still the one the loader read.
Loaded == pc \in {"run", "drain", "write"}

\* C7: with the code column found, the prior Records are exactly the rows
\* whose code entered the seen-set: a short row, a row with an empty code and
\* a row whose code is no integer give neither, every other row gives both.
C7_RetainedIffSeen ==
    (Loaded /\ FoundCol # 0) =>
        /\ seen_codes = {SeatOfCode(file.rows[i][FoundCol]) : i \in GoodRows}
        /\ Len(existing) = Cardinality(GoodRows)
        /\ \A j \in 1..Len(existing) :
              \E i \in GoodRows :
                 /\ existing[j] = ZipDict(file.header, file.rows[i])
                 /\ Cardinality({k \in GoodRows : k <= i}) = j

\* C7's case: a loaded file with a short row, an empty code, a code that is
\* no integer, and a row that is retained.
C7_Witness ==
    /\ Loaded
    /\ FoundCol # 0
    /\ existing # <<>>
    /\ \E i \in 1..Len(file.rows) : Len(file.rows[i]) < FoundCol
    /\ \E i \in 1..Len(file.rows) :
          Len(file.rows[i]) >= FoundCol /\ file.rows[i][FoundCol] = None
    /\ \E i \in 1..Len(file.rows) :
          /\ Len(file.rows[i]) >= FoundCol
          /\ file.rows[i][FoundCol].k = "str"
          /\ ~Parsable(file.rows[i][FoundCol])

\* The place of a field name in lexicographic order.
Rank(h) == CHOOSE i \in 1..Len(FieldOrder) : FieldOrder[i] = h

\* C8: the written header row is name, code, then every other field name of
\* the prior and new Records once, in lexicographic order; a row's cell is
\* empty in every column whose field its Record lacks, and holds the Record's
\* value otherwise.
C8_HeaderUnion ==
    (pc = "exit" /\ wrote) =>
        /\ Len(file.header) >= 2
        /\ file.header[1] = "name"
        /\ file.header[2] = "code"
        /\ {file.header[c] : c \in 3..Len(file.header)}
             = AllKeys(AllRecords) \ {"name", "code"}
        /\ \A c \in 3..(Len(file.header) - 1) :
              Rank(file.header[c]) < Rank(file.header[c + 1])
        /\ Len(file.rows) = Len(AllRecords)
        /\ \A i \in 1..Len(file.rows) :
              /\ Len(file.rows[i]) = Len(file.header)
              /\ \A c \in 1..Len(file.header) :
                    IF file.header[c] \in DOMAIN AllRecords[i]
                       /\ AllRecords[i][file.header[c]] # StrCell(<<>>)
                    THEN file.rows[i][c] = AllRecords[i][file.header[c]]
                    ELSE file.rows[i][c] = None

\* C8's case: prior {name A, code 1, Math 90} and new {name B, code 2,
\* Science 85} give the headers name, code, Math, Science and an empty
\* Science cell in the row of code 1.
C8_Witness ==
    /\ pc = "exit"
    /\ wrote
    /\ Len(existing) = 1
    /\ Len(results) = 1
    /\ file.header = <<"name", "code", "Math", "Science">>
    /\ file.rows[1] = <<StrCell(<<"A">>), IntCell(1), StrCell(<<"9", "0">>), None>>
    /\ file.rows[2] = <<StrCell(<<"B">>), IntCell(2), None, StrCell(<<"8", "5">>)>>

\* A body without a result section, or whose section has no table.
NoRecordBody(resp) == ~resp.sec \/ ~resp.table

\* C9: the step that receives a body without section or table returns None at
\* once: the invocation is over and releases its slot, nothing is logged, no
\* request is issued by that step or by the invocation afterwards.
C9_NoRetryOnNoResult ==
    [][\A seat \in DOMAIN task :
          /\ ( /\ task[seat] = "inflight"
               /\ attempt[seat] > remote[seat].fails
               /\ NoRecordBody(remote[seat].resp)
               /\ task'[seat] # "inflight" )
             => /\ task'[seat] = "returned"
                /\ completed' = Append(completed, [seat |-> seat, item |-> NoResult])
                /\ errlog' = errlog
                /\ requests' = requests
                /\ attempt' = attempt
                /\ semaphore' = semaphore + 1
          /\ (task[seat] = "returned" /\ seat \in DOMAIN task')
             => /\ task'[seat] = "returned"
                /\ requests'[seat] = requests[seat]
                /\ LogLines(seat)' = LogLines(seat)
      ]_vars

\* C9's case: an invocation returned on its first request with a body that
\* has a section and no table; nothing was logged for it.
C9_Witness ==
    \E seat \in DOMAIN task :
        /\ task[seat] = "returned"
        /\ remote[seat].resp.sec
        /\ ~remote[seat].resp.table
        /\ remote[seat].fails = 0
        /\ requests[seat] = 1
        /\ LogLines(seat) = {}

\* The SeatIds range(START_SEAT, END_SEAT + 1) enumerates.
RangeSeats == {SeatStr(n) : n \in START_SEAT..END_SEAT}

\* C10: once run() has scheduled, there is exactly one invocation for each
\* SeatId of the enumerated range that is not in the seen-set, requests are
\* issued for scheduled seats only, never for a seat of the seen-set; the
\* seen-set holds zero-padded strings, whatever the type of the code cell.
C10_ScheduledUnseen ==
    (pc \in {"drain", "write", "exit"}) =>
        /\ Scheduled = RangeSeats \ seen_codes
        /\ \A i, j \in 1..Len(seats) : seats[i] = seats[j] => i = j
        /\ DOMAIN task = Scheduled
        /\ \A seat \in DOMAIN requests :
              requests[seat] > 0 => seat \in RangeSeats /\ seat \notin seen_codes
        /\ \A seat \in seen_codes : Len(seat) = SeatWidth

\* C10's case: a seat of the range is skipped because a prior row gives its
\* code as text (" 2"), while a request was issued for another seat.
C10_Witness ==
    /\ pc = "drain"
    /\ run = 1
    /\ FoundCol # 0
    /\ \E i \in GoodRows :
          /\ file.rows[i][FoundCol].k = "str"
          /\ SeatOfCode(file.rows[i][FoundCol]) \in RangeSeats \ Scheduled
    /\ \E seat \in Scheduled : requests[seat] > 0

\* C11: results changes only in the step of run() that takes the next
\* completion, which appends that completion's Record and touches no
\* invocation; a step of a fetch_one invocation leaves results as it is.
C11_ResultsOnlyDrained ==
    [][ /\ (results' # results /\ run' = run)
           => /\ pc = "drain" /\ pc' = "drain"
              /\ completed # <<>>
              /\ completed' = Tail(completed)
              /\ Truthy(Head(completed).item)
              /\ results' = Append(results, Head(completed).item)
              /\ task' = task /\ attempt' = attempt /\ semaphore' = semaphore
        /\ (run' = run /\ (task' # task \/ attempt' # attempt))
           => results' = results ]_vars

\* A Record has been kept while another invocation is still under way.
C11_Witness ==
    /\ results # <<>>
    /\ \E seat \in DOMAIN task : task[seat] \in {"waiting", "inflight", "sleeping"}
    /\ \E seat \in DOMAIN task :
          task[seat] = "returned" /\ seat \notin {completed[i].seat : i \in DOMAIN completed}
             /\ seat \notin {origin[i] : i \in DOMAIN origin}

\* The seats of this run whose invocation returns a Record.
Fetched ==
    {seat \in DOMAIN task :
        /\ remote[seat].fails < retries
        /\ ParseResponse(seat, remote[seat].resp) # NoResult}

\* The `[OK]` lines printed so far, in order.
OkLines == SelectSeq(console, LAMBDA l : l.msg = "ok")

\* C12: when run() has finished, results holds the Records in the order their
\* invocations returned, one per invocation that returned a Record and none
\* for the others, and one `[OK]` line was printed per Record, in the same
\* order, carrying the Record's code padded to six characters and its name.
C12_ResultsInCompletionOrder ==
    pc \in {"write", "exit"} =>
        /\ Len(results) = Len(finished)
        /\ Len(origin) = Len(finished)
        /\ \A i \in DOMAIN finished :
              /\ results[i] = finished[i].item
              /\ origin[i] = finished[i].seat
              /\ results[i] = ParseResponse(origin[i], remote[origin[i]].resp)
        /\ \A seat \in DOMAIN task :
              Cardinality({i \in DOMAIN origin : origin[i] = seat})
                 = IF seat \in Fetched THEN 1 ELSE 0
        /\ Len(OkLines) = Len(results)
        /\ \A i \in DOMAIN results :
              /\ OkLines[i].code = ZFill(CodeText(results[i]["code"]), SeatWidth)
              /\ OkLines[i].name = results[i]["name"].s

\* run() has finished with two Records kept in the reverse of the order their
\* seats were submitted, and an invocation that returned no Record.
C12_Witness ==
    /\ pc = "write"
    /\ Len(results) >= 2
    /\ \E i, j \in DOMAIN seats :
          /\ i < j
          /\ \E m, n \in DOMAIN origin :
                m < n /\ origin[m] = seats[j] /\ origin[n] = seats[i]
    /\ DOMAIN task \ Fetched # {}

\* The row holds the Record: under each header the Record's value for it, an
\* empty cell where the Record has none, and no field of the Record is left
\* without a column.
RowShows(header, row, rec) ==
    /\ Len(row) = Len(header)
    /\ DOMAIN rec \subseteq {header[c] : c \in DOMAIN header}
    /\ \A c \in DOMAIN header :
          row[c] = IF header[c] \in DOMAIN rec /\ rec[header[c]] # StrCell(<<>>)
                   THEN rec[header[c]]
                   ELSE None

\* C13: after the writer ran, the file holds one data row per Record and no
\* other row: the prior Records in loaded order first, then the new Records
\* in the order they were appended; what the file held before is gone.
C13_RowPerRecord ==
    (pc = "exit" /\ wrote) =>
        /\ file.exists
        /\ Len(file.rows) = Len(existing) + Len(results)
        /\ \A i \in DOMAIN existing :
              RowShows(file.header, file.rows[i], existing[i])
        /\ \A j \in DOMAIN results :
              RowShows(file.header, file.rows[Len(existing) + j], results[j])

\* The writer replaced a file of four rows, of which the loader retained one,
\* by that Record's row followed by the rows of two new Records.
C13_Witness ==
    /\ pc = "exit"
    /\ wrote
    /\ run = 1
    /\ Len(first_file.rows) = 4
    /\ Len(existing) = 1
    /\ Len(results) = 2
    /\ Len(file.rows) = 3
    /\ results[1] # results[2]

\* C14: with no prior and no new Record the step after run() prints that no
\* record was fetched and ends the program, leaving the output file as it
\* was (absent if it was absent); the file changes in no step but the
\* writer's, and there only with a Record to write.
C14_NothingToWrite ==
    [][ /\ (pc = "write" /\ existing = <<>> /\ results = <<>>)
           => /\ file' = file
              /\ wrote' = FALSE
              /\ pc' = "exit"
              /\ console' = Append(console, Line("no new records", <<>>, <<>>, 0))
        /\ (file' # file)
           => /\ pc = "write"
              /\ existing # <<>> \/ results # <<>> ]_vars

\* The program ended without a file: none was there, the only seat was
\* fetched and gave no Record, and the last line printed says so.
C14_Witness ==
    /\ pc = "exit"
    /\ ~wrote
    /\ existing = <<>> /\ results = <<>>
    /\ ~first_file.exists /\ ~file.exists
    /\ \E seat \in DOMAIN task : requests[seat] > 0
    /\ console # <<>>
    /\ console[Len(console)].msg = "no new records"

\* The warning of src line 45 has been printed by this process.
Warned == \E i \in DOMAIN console : console[i].msg = "no code column"

\* C15: when the loader finds no code column, because no header is `code`
\* after trimming and lower-casing or because there is no file, it ends with
\* no prior Record and an empty seen-set, and run() schedules every SeatId
\* its range enumerates; the warning is printed if and only if the file
\* exists.
C15_NoCodeColumn ==
    (Loaded /\ FoundCol = 0) =>
        /\ existing = <<>>
        /\ seen_codes = {}
        /\ Warned <=> file.exists
        /\ \A i \in DOMAIN console : console[i].msg # "loaded"
        /\ pc \in {"drain", "write"} =>
              /\ Scheduled = RangeSeats
              /\ Len(seats) = Cardinality(RangeSeats)
              /\ DOMAIN task = RangeSeats

\* A prior file headed Math, Science with a row: the warning was printed and
\* every seat of a range of at least two is scheduled.
C15_Witness ==
    /\ pc = "drain"
    /\ file.exists
    /\ FoundCol = 0
    /\ file.rows # <<>>
    /\ Warned
    /\ Cardinality(RangeSeats) >= 2
    /\ Scheduled = RangeSeats

\* C16: under fair scheduling a started process reaches its end, and run()
\* is left only when every scheduled invocation has returned, with a Record
\* or with no result, and every completion has been taken: so every
\* invocation returns, none waits for a slot for ever, and no invocation
\* ends run() by an exception.
C16_Termination ==
    /\ (pc # "exit") ~> (pc = "exit")
    /\ [](pc \in {"write", "exit"} =>
            /\ completed = <<>>
            /\ DOMAIN task = Scheduled
            /\ \A seat \in DOMAIN task : task[seat] = "returned")

\* run() has finished although an invocation had to wait for a slot (more
\* seats than slots) and one seat failed on every attempt.
C16_Witness ==
    /\ pc = "exit"
    /\ retries > 0
    /\ Cardinality(DOMAIN task) > CONCURRENT_REQUESTS
    /\ \E seat \in DOMAIN task : FailsAlways(seat) /\ requests[seat] = retries

\* C17: no new Record has a code whose zero-padded form is in the seen-set,
\* and no two new Records have the same code, whatever the remote answers
\* (also where it asserts a code other than the requested seat): the
\* combined dataset holds no two Records of one code.
C17_NoDuplicateCodes ==
    /\ \A i \in DOMAIN results :
          IntOk(results[i]["code"]) => SeatOfCode(results[i]["code"]) \notin seen_codes
    /\ \A i, j \in DOMAIN results :
          results[i]["code"] = results[j]["code"] => i = j

\* The new Records whose code is the requested seat's.
OwnCode == {i \in DOMAIN results : results[i]["code"] = IntCell(DigitsValue(origin[i]))}

\* The part of C17 the code keeps: among the new Records whose code is the
\* requested seat's, none has a code of the seen-set and no two share one.
C17_OwnCodesUnique ==
    /\ \A i \in OwnCode : SeatOfCode(results[i]["code"]) \notin seen_codes
    /\ \A i, j \in OwnCode : results[i]["code"] = results[j]["code"] => i = j

\* The per-attempt entries and the final entries logged for a seat.
Errors(seat) ==
    {i \in DOMAIN errlog : errlog[i].seat = seat /\ errlog[i].msg = "error"}

Finals(seat) ==
    {i \in DOMAIN errlog :
        errlog[i].seat = seat /\ errlog[i].msg = "failed after retries"}

\* C18: a scheduled seat is requested at most RETRIES times, the first
\* attempt included; every attempt that raised has its own log entry before
\* the delay and the next request; a seat whose every attempt raises is
\* requested exactly RETRIES times, has RETRIES such entries followed by one
\* final `failed after retries` entry, and returns no result; with RETRIES = 0
\* that is no request and the final entry alone.
C18_RetryBudget ==
    \A seat \in DOMAIN task :
        /\ requests[seat] <= retries
        /\ requests[seat] = attempt[seat]
        /\ Cardinality(Errors(seat))
             = CASE task[seat] = "inflight" -> requests[seat] - 1
                 [] task[seat] = "sleeping" -> requests[seat]
                 [] task[seat] = "returned" /\ FailsAlways(seat) -> retries
                 [] task[seat] = "returned" /\ ~FailsAlways(seat) -> requests[seat] - 1
                 [] OTHER -> 0
        /\ Cardinality(Finals(seat))
             = IF task[seat] = "returned" /\ FailsAlways(seat) THEN 1 ELSE 0
        /\ (task[seat] = "returned" /\ FailsAlways(seat)) =>
              /\ requests[seat] = retries
              /\ \A i \in Errors(seat) : \A j \in Finals(seat) : i < j
              /\ \A i \in DOMAIN origin : origin[i] # seat
              /\ \A i \in DOMAIN completed :
                    completed[i].seat = seat => completed[i].item = NoResult

\* A seat whose every attempt raised: RETRIES requests, RETRIES entries and
\* the final one, while other seats gave their Records.
C18_Witness ==
    /\ pc = "write"
    /\ retries = RETRIES
    /\ results # <<>>
    /\ \E seat \in DOMAIN task :
          /\ FailsAlways(seat)
          /\ requests[seat] = RETRIES
          /\ Cardinality(Errors(seat)) = RETRIES
          /\ Cardinality(Finals(seat)) = 1

\* With RETRIES = 0 every seat is logged as failed without a request.
C18_NoRetriesReached ==
    /\ pc = "write"
    /\ retries = 0
    /\ DOMAIN task # {}
    /\ \A seat \in DOMAIN task :
          requests[seat] = 0 /\ Cardinality(Finals(seat)) = 1

\* The invocation state is one that holds a slot.
Holds(s) == s \in {"inflight", "sleeping"}

\* C19: in every step the free slots go down by the invocations admitted and
\* up by the invocations that return; an admitted invocation keeps its slot
\* through its attempts and its waits until it returns, on whichever path,
\* and a returned invocation takes none again; so the slots held are always
\* as many as the invocations between admission and return, and none is held
\* once run() has finished.
C19_SlotHeldOnce ==
    [][ /\ \A seat \in DOMAIN task \cap DOMAIN task' :
              /\ (Holds(task[seat]) /\ ~Holds(task'[seat]))
                    => task'[seat] = "returned"
              /\ task[seat] = "returned" => task'[seat] = "returned"
        /\ run' = run =>
              semaphore' = semaphore
                 - Cardinality({seat \in DOMAIN task :
                                  ~Holds(task[seat]) /\ Holds(task'[seat])})
                 + Cardinality({seat \in DOMAIN task :
                                  Holds(task[seat]) /\ ~Holds(task'[seat])})
        /\ semaphore' = CONCURRENT_REQUESTS - Cardinality(InFlight')
        /\ pc' \in {"write", "exit"} => semaphore' = CONCURRENT_REQUESTS ]_vars

\* Every slot is held, one of them by an invocation in its retry wait, and
\* another invocation waits for a slot.
C19_Witness ==
    /\ semaphore = 0
    /\ \E seat \in DOMAIN task : task[seat] = "sleeping"
    /\ \E seat \in DOMAIN task : task[seat] = "waiting"

\* C20: at the step that follows run(), if the file on disk has no code
\* column then either a new Record was fetched and the file is replaced by
\* the rows of the new Records alone, or none was and the file stays as it
\* is; if the file has a code column and the step writes, every prior Record
\* the loader retained has its row in the new file.
C20_DegradedMode ==
    [][ (pc = "write" /\ pc' = "exit") =>
          IF file.exists /\ CodeCol(file.header) = 0
          THEN IF results # <<>>
               THEN /\ wrote'
                    /\ file'.exists
                    /\ Len(file'.rows) = Len(results)
                    /\ \A j \in DOMAIN results :
                          RowShows(file'.header, file'.rows[j], results[j])
               ELSE ~wrote' /\ file' = file
          ELSE (file.exists /\ wrote') =>
                  /\ Len(file'.rows) >= Len(existing)
                  /\ \A i \in DOMAIN existing :
                        RowShows(file'.header, file'.rows[i], existing[i]) ]_vars

\* A prior file headed Math, Science with one row was replaced by the rows of
\* the new Records: its row and its Science column are gone.
C20_Witness ==
    /\ pc = "exit"
    /\ wrote
    /\ run = 1
    /\ first_file.exists
    /\ CodeCol(first_file.header) = 0
    /\ first_file.rows # <<>>
    /\ results # <<>>
    /\ Len(file.rows) = Len(results)
    /\ \A c \in DOMAIN file.header : file.header[c] # "Science"

\* A prior file without a code column is left as it is when no Record was
\* fetched.
C20_DegradedUnchangedReached ==
    /\ pc = "exit"
    /\ ~wrote
    /\ file.exists
    /\ CodeCol(file.header) = 0
    /\ \E seat \in DOMAIN task : requests[seat] > 0

\* A prior file with a code column was rewritten with its retained Record
\* and a new one.
C20_NormalReached ==
    /\ pc = "exit"
    /\ wrote
    /\ run = 1
    /\ first_file.exists
    /\ CodeCol(first_file.header) # 0
    /\ existing # <<>>
    /\ results # <<>>
====
